---- MODULE Spec2Model ----
(***************************************************************************)
(* Model of analysis/eda_and_cleaning.py: the cleaning function clean_data *)
(* over a small record table, and the orchestration of main() with its     *)
(* file-system effects and the drawing surfaces of generate_visualizations.*)
(*                                                                         *)
(* A table is [cols |-> sequence of column names, rows |-> sequence of     *)
(* rows], a row being a function from the column names to cell values.     *)
(* Text cells of 'Blood Pressure' are sequences of one-character strings,  *)
(* so that splitting on "/" and the conversion to int are computed.        *)
(***************************************************************************)
EXTENDS Integers, Sequences, FiniteSets, TLC

\* ------------------------------------------------------------ bounds
\* Largest number of rows of an input table.
MaxRows == 2
\* Largest systolic or diastolic reading the claims quantify over.
MaxReading == 12

\* ------------------------------------------------------------ names
SD  == "Sleep Disorder"
BP  == "Blood Pressure"
BMI == "BMI Category"
DUR == "Sleep Duration"
STR == "Stress Level"
SYS == "BP_Systolic"
DIA == "BP_Diastolic"

\* A missing value of a text column (pandas NaN).
NaN == "<NaN>"
\* A missing 'Blood Pressure' cell: read_csv loads an empty field as NaN, so
\* the empty text never occurs in a loaded table and stands for NaN here.
NaNText == <<>>
\* The padding str.split(expand=True) gives a row with fewer parts.
NonePart == <<"<None>">>

DataPath   == "data/Sleep_health_and_lifestyle_dataset.csv"
OutputPath == "data/processed/sleep_health_cleaned.csv"
PlotsDir   == "analysis/plots"
ProcDir    == "data/processed"

\* ------------------------------------------------------------ text
Digits == <<"0", "1", "2", "3", "4", "5", "6", "7", "8", "9">>

IsDigit(c) == \E i \in 1..Len(Digits) : Digits[i] = c

DigitVal(c) == (CHOOSE i \in 1..Len(Digits) : Digits[i] = c) - 1

\* int(s) succeeds: s is a non-empty run of decimal digits.
IsIntLiteral(s) == Len(s) > 0 /\ \A i \in 1..Len(s) : IsDigit(s[i])

RECURSIVE ParseInt(_)
\* int(s) of a decimal literal.
ParseInt(s) ==
  IF Len(s) = 0 THEN 0
  ELSE ParseInt(SubSeq(s, 1, Len(s) - 1)) * 10 + DigitVal(s[Len(s)])

RECURSIVE StrSplit(_, _)
\* s.split(sep): the parts between the occurrences of sep, in order.
StrSplit(s, sep) ==
  IF \A i \in 1..Len(s) : s[i] # sep THEN <<s>>
  ELSE LET k == CHOOSE i \in 1..Len(s) :
                  s[i] = sep /\ \A j \in 1..(i - 1) : s[j] # sep
       IN <<SubSeq(s, 1, k - 1)>> \o StrSplit(SubSeq(s, k + 1, Len(s)), sep)

RECURSIVE FormatInt(_)
\* str(n) of a natural number (used to state what "S/D" means).
FormatInt(n) ==
  IF n < 10 THEN <<Digits[n + 1]>>
  ELSE FormatInt(n \div 10) \o <<Digits[(n % 10) + 1]>>

\* ------------------------------------------------------------ tables
ColSet(t) == {t.cols[i] : i \in 1..Len(t.cols)}

HasCol(t, c) == c \in ColSet(t)

NRows(t) == Len(t.rows)

\* df[c] = vals: an existing column keeps its place, a new one is appended.
SetColumn(t, c, vals) ==
  [cols |-> IF HasCol(t, c) THEN t.cols ELSE Append(t.cols, c),
   rows |-> [i \in 1..NRows(t) |->
               [k \in ColSet(t) \cup {c} |->
                  IF k = c THEN vals[i] ELSE t.rows[i][k]]]]

\* df.drop(columns=[c]): a new table without column c.
DropColumn(t, c) ==
  [cols |-> SelectSeq(t.cols, LAMBDA k : k # c),
   rows |-> [i \in 1..NRows(t) |->
               [k \in ColSet(t) \ {c} |-> t.rows[i][k]]]]

\* ------------------------------------------------------------ clean_data
\* fillna that fills nothing.
FillNa_Mut(v) == v

\* Series.fillna('None') on one cell.
FillNa(v) == IF v = NaN THEN "None" ELSE v

\* replace with the mapping written the wrong way round.
ReplaceLabel_Mut(v) == IF v = "Normal" THEN "Normal Weight" ELSE v

\* Series.replace({'Normal Weight': 'Normal'}) on one cell.
ReplaceLabel(v) == IF v = "Normal Weight" THEN "Normal" ELSE v

\* Step 1, line 34: the column is assigned back into the caller's table.
FillSleepDisorder(t) ==
  SetColumn(t, SD, [i \in 1..NRows(t) |-> FillNa(t.rows[i][SD])])

\* Step 3, line 47.
NormalizeBMI(t) ==
  SetColumn(t, BMI, [i \in 1..NRows(t) |-> ReplaceLabel(t.rows[i][BMI])])

\* .str.split('/') of one cell: a missing cell stays missing.
SplitCell(v) == IF v = NaNText THEN <<NaNText>> ELSE StrSplit(v, "/")

Max(S) == CHOOSE x \in S : \A y \in S : y <= x

\* Number of columns of .str.split('/', expand=True): the longest row, and no
\* column at all for a table without rows.
SplitWidth(t) ==
  IF NRows(t) = 0 THEN 0
  ELSE Max({Len(SplitCell(t.rows[i][BP])) : i \in 1..NRows(t)})

\* Cell (i, j) of the expanded frame: a missing row is missing in every
\* column, a short row is padded with None.
SplitPart(t, i, j) ==
  LET v == t.rows[i][BP]
      parts == SplitCell(v)
  IN IF v = NaNText THEN NaNText
     ELSE IF j <= Len(parts) THEN parts[j] ELSE NonePart

\* .astype(int) succeeds: every cell of the expanded frame converts.
AsTypeIntOk(t) ==
  \A i \in 1..NRows(t) : \A j \in 1..SplitWidth(t) :
    IsIntLiteral(SplitPart(t, i, j))

\* The assignment to the two-column key accepts the frame: it must have
\* exactly as many columns as the key.
KeyLengthOk(t) == SplitWidth(t) = 2

\* Line 39 raises nothing.
SplitOk(t) == AsTypeIntOk(t) /\ KeyLengthOk(t)

\* Line 39 when it succeeds: both new columns are set on the caller's table.
AssignSplit(t) ==
  SetColumn(
    SetColumn(t, SYS, [i \in 1..NRows(t) |-> ParseInt(SplitPart(t, i, 1))]),
    DIA, [i \in 1..NRows(t) |-> ParseInt(SplitPart(t, i, 2))])

\* Step 1 left out.
CleanStep1_Mut(t) == t

\* Step 1, lines 33-35: guarded by the presence of 'Sleep Disorder'.
CleanStep1(t) == IF HasCol(t, SD) THEN FillSleepDisorder(t) ELSE t

\* Step 2 without its presence check: a table without the column raises.
CleanStep2_Mut(t) ==
  IF HasCol(t, BP) /\ SplitOk(t)
  THEN [ok |-> TRUE, arg |-> AssignSplit(t),
        ret |-> DropColumn(AssignSplit(t), BP), copied |-> TRUE]
  ELSE [ok |-> FALSE, arg |-> t, ret |-> t, copied |-> FALSE]

\* Step 2, lines 38-42: guarded by the presence of 'Blood Pressure'.
\* ok: nothing was raised; arg: the table object the step was given, as the
\* step left it; ret: the table df is bound to after the step; copied: df was
\* rebound to the copy made by drop (line 41).
CleanStep2(t) ==
  IF HasCol(t, BP)
  THEN IF SplitOk(t)
       THEN [ok |-> TRUE, arg |-> AssignSplit(t),
             ret |-> DropColumn(AssignSplit(t), BP), copied |-> TRUE]
       ELSE [ok |-> FALSE, arg |-> t, ret |-> t, copied |-> FALSE]
  ELSE [ok |-> TRUE, arg |-> t, ret |-> t, copied |-> FALSE]

\* Step 3 without its presence check: the assignment creates the column.
CleanStep3_Mut(t) ==
  IF HasCol(t, BMI) THEN NormalizeBMI(t)
  ELSE SetColumn(t, BMI, [i \in 1..NRows(t) |-> "Normal"])

\* Step 3, lines 46-48: guarded by the presence of 'BMI Category'.
CleanStep3(t) == IF HasCol(t, BMI) THEN NormalizeBMI(t) ELSE t

\* clean_data(df). ok: it returned; ret: the table returned; arg: the table
\* object the caller passed, as the call left it (the steps assign into it
\* until line 41 rebinds df to a copy).
CleanData(t) ==
  LET s2 == CleanStep2(CleanStep1(t))
  IN IF s2.ok
     THEN [ok |-> TRUE, ret |-> CleanStep3(s2.ret),
           arg |-> IF s2.copied THEN s2.arg ELSE CleanStep3(s2.ret)]
     ELSE [ok |-> FALSE, ret |-> s2.arg, arg |-> s2.arg]

\* ------------------------------------------------------------ inputs
\* Column order of the dataset, restricted to the columns the program names.
AllCols == <<DUR, STR, BMI, BP, SD>>

Schemas ==
  {SelectSeq(AllCols, LAMBDA c : c \in S) :
     S \in SUBSET {AllCols[i] : i \in 1..Len(AllCols)}}

SDValues  == {NaN, "Insomnia"}
BMIValues == {"Normal Weight", "Normal", "Overweight"}
\* Well-formed "S/D" texts, and texts line 39 cannot take: one part, three
\* parts, a part that is no integer, a missing cell.
BPValues ==
  {<<"1", "2", "/", "8">>, <<"9", "/", "6">>,
   <<"1", "2">>, <<"1", "/", "2", "/", "3">>, <<"x", "/", "8">>, NaNText}

RowsOver(S) ==
  {[c \in S |-> CASE c = SD  -> sd
                  [] c = BP  -> bp
                  [] c = BMI -> bmi
                  [] c = DUR -> 7
                  [] c = STR -> 5] :
     sd \in SDValues, bp \in BPValues, bmi \in BMIValues}

EmptyTable == [cols |-> <<>>, rows |-> <<>>]

\* What read_csv finds at DataPath: a file that parses to a table, or one
\* that does not parse (an empty file).
IsInput(x) ==
  \/ \E t \in {EmptyTable} : x = [parses |-> FALSE, table |-> t]
  \/ \E cols \in Schemas : \E n \in 0..MaxRows :
       \E rs \in [1..n -> RowsOver({cols[i] : i \in 1..Len(cols)})] :
         x = [parses |-> TRUE, table |-> [cols |-> cols, rows |-> rs]]

\* ------------------------------------------------------------ state
VARIABLES
  pc,        \* position in the script
  fs,        \* paths that exist
  input,     \* content of the file at DataPath
  df,        \* main's df: the loaded table, the object passed to clean_data
  df_clean,  \* main's df_clean: the table clean_data returned
  figs,      \* number of open drawing surfaces
  log,       \* steps completed so far, in order
  first      \* harness only: what the first call of clean_data returned

vars == <<pc, fs, input, df, df_clean, figs, log, first>>

\* ------------------------------------------------------------ charts
\* The files the five charts are saved to, lines 60, 68, 75, 82, 91.
ChartPaths ==
  <<"analysis/plots/01_sleep_disorder_dist.png",
    "analysis/plots/02_correlation_heatmap.png",
    "analysis/plots/03_sleep_duration_boxplot.png",
    "analysis/plots/04_stress_level_boxplot.png",
    "analysis/plots/05_bmi_distribution.png">>

NCharts == Len(ChartPaths)

\* The columns chart k names (x, y, hue).
ChartColumns(k) ==
  CASE k = 1 -> {SD}
    [] k = 2 -> {}
    [] k = 3 -> {SD, DUR}
    [] k = 4 -> {SD, STR}
    [] k = 5 -> {BMI, SD}

ColumnsPresent(k, t) == ChartColumns(k) \subseteq ColSet(t)

\* df.select_dtypes(include=[np.number]): a file with a header and no rows
\* loads every column as text.
NumericCols(t) ==
  IF NRows(t) = 0 THEN {} ELSE ColSet(t) \cap {DUR, STR, SYS, DIA}

\* The plotting library is given nothing to draw; whether it then raises is
\* left open.
NothingToDraw(k, t) ==
  NRows(t) = 0 \/ (k = 2 /\ NumericCols(t) = {})

\* ------------------------------------------------------------ main
Init ==
  /\ pc = "import"
  /\ fs \in SUBSET {DataPath, PlotsDir, ProcDir}
  /\ IsInput(input)
  /\ df = EmptyTable
  /\ df_clean = EmptyTable
  /\ figs = 0
  /\ log = <<>>
  /\ first = EmptyTable

\* Lines 8-9: os.makedirs(..., exist_ok=True) at module level.
MakeDirs ==
  /\ pc = "import"
  /\ fs' = fs \cup {PlotsDir, ProcDir}
  /\ log' = Append(log, "makedirs")
  /\ pc' = "main"
  /\ UNCHANGED <<input, df, df_clean, figs, first>>

\* main without the check of the input path.
CheckPath_Mut ==
  /\ pc = "main"
  /\ pc' = "load_data"
  /\ UNCHANGED <<fs, input, df, df_clean, figs, log, first>>

\* Lines 100-103: the early return when the input file is missing.
CheckPath ==
  /\ pc = "main"
  /\ pc' = IF DataPath \in fs THEN "load_data" ELSE "returned"
  /\ UNCHANGED <<fs, input, df, df_clean, figs, log, first>>

\* Line 105: load_data; read_csv raises on a file it cannot parse.
LoadData ==
  /\ pc = "load_data"
  /\ IF input.parses
     THEN /\ df' = input.table
          /\ log' = Append(log, "load_data")
          /\ pc' = "basic_inspection"
     ELSE /\ pc' = "fault"
          /\ UNCHANGED <<df, log>>
  /\ UNCHANGED <<fs, input, df_clean, figs, first>>

\* main that goes from the inspection straight to saving.
BasicInspection_Mut ==
  /\ pc = "basic_inspection"
  /\ df' = df
  /\ df_clean' = df
  /\ log' = Append(log, "basic_inspection")
  /\ pc' = "to_csv"
  /\ UNCHANGED <<fs, input, figs, first>>

\* Line 106: basic_inspection prints and returns the table it was given.
BasicInspection ==
  /\ pc = "basic_inspection"
  /\ df' = df
  /\ log' = Append(log, "basic_inspection")
  /\ pc' = "clean_data"
  /\ UNCHANGED <<fs, input, df_clean, figs, first>>

\* Line 107: df_clean = clean_data(df).
CleanStep ==
  /\ pc = "clean_data"
  /\ LET r == CleanData(df)
     IN /\ df' = r.arg
        /\ IF r.ok
           THEN /\ df_clean' = r.ret
                /\ log' = Append(log, "clean_data")
                /\ pc' = "to_csv"
           ELSE /\ pc' = "fault"
                /\ UNCHANGED <<df_clean, log>>
  /\ UNCHANGED <<fs, input, figs, first>>

\* main that saves nothing before the charts.
SaveCsv_Mut ==
  /\ pc = "to_csv"
  /\ pc' = "figure"
  /\ UNCHANGED <<fs, input, df, df_clean, figs, log, first>>

\* Lines 110-112: df_clean.to_csv(output_path); the directory must exist.
SaveCsv ==
  /\ pc = "to_csv"
  /\ IF ProcDir \in fs
     THEN /\ fs' = fs \cup {OutputPath}
          /\ log' = Append(log, "to_csv")
          /\ pc' = "figure"
     ELSE /\ pc' = "fault"
          /\ UNCHANGED <<fs, log>>
  /\ UNCHANGED <<input, df, df_clean, figs, first>>

\* Number of the chart being made: those already closed, plus one.
Chart == Cardinality({i \in 1..Len(log) : log[i] = "close"}) + 1

\* plt.figure(...), lines 57, 64, 72, 79, 86.
Figure ==
  /\ pc = "figure"
  /\ figs' = figs + 1
  /\ log' = Append(log, "figure")
  /\ pc' = "draw"
  /\ UNCHANGED <<fs, input, df, df_clean, first>>

\* The plot call, the title and plt.savefig of one chart; a column the plot
\* names and the table lacks makes the plot call raise.
DrawSave ==
  /\ pc = "draw"
  /\ \/ /\ ColumnsPresent(Chart, df_clean)
        /\ PlotsDir \in fs
        /\ fs' = fs \cup {ChartPaths[Chart]}
        /\ log' = Append(log, "savefig")
        /\ pc' = "close"
     \/ /\ \/ ~ColumnsPresent(Chart, df_clean)
           \/ NothingToDraw(Chart, df_clean)
           \/ PlotsDir \notin fs
        /\ pc' = "fault"
        /\ UNCHANGED <<fs, log>>
  /\ UNCHANGED <<input, df, df_clean, figs, first>>

\* A chart that does not close its figure.
Close_Mut ==
  /\ pc = "close"
  /\ log' = Append(log, "close")
  /\ pc' = IF Chart < NCharts THEN "figure" ELSE "describe"
  /\ UNCHANGED <<fs, input, df, df_clean, figs, first>>

\* plt.close(), lines 61, 69, 76, 83, 92.
Close ==
  /\ pc = "close"
  /\ figs' = figs - 1
  /\ log' = Append(log, "close")
  /\ pc' = IF Chart < NCharts THEN "figure" ELSE "describe"
  /\ UNCHANGED <<fs, input, df, df_clean, first>>

\* Lines 116-117: the summary statistics, then main returns.
Describe ==
  /\ pc = "describe"
  /\ log' = Append(log, "describe")
  /\ pc' = "done"
  /\ UNCHANGED <<fs, input, df, df_clean, figs, first>>

Next ==
  \/ MakeDirs
  \/ CheckPath
  \/ LoadData
  \/ BasicInspection
  \/ CleanStep
  \/ SaveCsv
  \/ Figure
  \/ DrawSave
  \/ Close
  \/ Describe

Spec == Init /\ [][Next]_vars

\* ------------------------------------------------------------ cleaner alone
\* clean_data called on a table, then called again on what it returned.
InitCleaner ==
  /\ pc = "call"
  /\ fs = {}
  /\ IsInput(input)
  /\ input.parses
  /\ df = input.table
  /\ df_clean = EmptyTable
  /\ figs = 0
  /\ log = <<>>
  /\ first = EmptyTable

CallCleanData ==
  /\ pc = "call"
  /\ LET r == CleanData(df)
     IN /\ df' = r.arg
        /\ IF r.ok
           THEN /\ df_clean' = r.ret
                /\ pc' = "returned"
           ELSE /\ pc' = "raised"
                /\ UNCHANGED df_clean
  /\ UNCHANGED <<fs, input, figs, log, first>>

CallAgain ==
  /\ pc = "returned"
  /\ LET r == CleanData(df_clean)
     IN /\ first' = df_clean
        /\ IF r.ok
           THEN /\ df_clean' = r.ret
                /\ pc' = "returned again"
           ELSE /\ pc' = "raised again"
                /\ df_clean' = r.arg
  /\ UNCHANGED <<fs, input, df, figs, log>>

NextCleaner == CallCleanData \/ CallAgain

SpecCleaner == InitCleaner /\ [][NextCleaner]_vars

\* ------------------------------------------------------------ claims: cleaner
\* The table clean_data was first called on.
Orig == input.table

Rows(t) == 1..NRows(t)

\* v is the text "S/D" of the integers S and D.
IsReading(v, S, D) == v = FormatInt(S) \o <<"/">> \o FormatInt(D)

Readings == 0..MaxReading

IsSDForm(v) == \E S \in Readings, D \in Readings : IsReading(v, S, D)

\* C3: for every table with a 'Blood Pressure' column whose values all have
\* the form "S/D", clean_data returns a table where every row has
\* BP_Systolic = S and BP_Diastolic = D and 'Blood Pressure' is absent.
C3_BloodPressureSplit ==
  (/\ pc \in {"returned", "raised"}
   /\ HasCol(Orig, BP)
   /\ \A i \in Rows(Orig) : IsSDForm(Orig.rows[i][BP]))
  => /\ pc = "returned"
     /\ ~HasCol(df_clean, BP)
     /\ HasCol(df_clean, SYS) /\ HasCol(df_clean, DIA)
     /\ NRows(df_clean) = NRows(Orig)
     /\ \A i \in Rows(Orig) : \A S \in Readings, D \in Readings :
          IsReading(Orig.rows[i][BP], S, D)
            => /\ df_clean.rows[i][SYS] = S
               /\ df_clean.rows[i][DIA] = D

\* The same statement for tables with at least one row.
BloodPressureSplitNonEmpty == NRows(Orig) > 0 => C3_BloodPressureSplit

BloodPressureSplitNonEmptyWitness ==
  /\ pc = "returned"
  /\ HasCol(Orig, BP)
  /\ NRows(Orig) = MaxRows
  /\ df_clean.rows[1][SYS] = 12 /\ df_clean.rows[1][DIA] = 8

\* C4: clean_data applied to what clean_data returned does not fail and
\* returns an equal table (same columns in the same order, same rows).
C4_Idempotent ==
  /\ pc # "raised again"
  /\ pc = "returned again" => df_clean = first

C4_Witness ==
  /\ pc = "returned again"
  /\ HasCol(Orig, BP) /\ HasCol(Orig, SD) /\ HasCol(Orig, BMI)
  /\ NRows(Orig) > 0
  /\ first # Orig
  /\ \E i \in Rows(Orig) :
       Orig.rows[i][SD] = NaN /\ Orig.rows[i][BMI] = "Normal Weight"

\* C5: after clean_data, 'Sleep Disorder' has no missing value: a missing
\* value has become "None", a present value is kept, and the number of rows
\* is that of the input.
C5_SleepDisorderFilled ==
  (pc = "returned" /\ HasCol(Orig, SD))
  => /\ HasCol(df_clean, SD)
     /\ NRows(df_clean) = NRows(Orig)
     /\ \A i \in Rows(Orig) :
          /\ df_clean.rows[i][SD] # NaN
          /\ Orig.rows[i][SD] = NaN => df_clean.rows[i][SD] = "None"
          /\ Orig.rows[i][SD] # NaN => df_clean.rows[i][SD] = Orig.rows[i][SD]

C5_Witness ==
  /\ pc = "returned"
  /\ HasCol(Orig, SD)
  /\ \E i \in Rows(Orig), j \in Rows(Orig) :
       /\ Orig.rows[i][SD] = NaN /\ df_clean.rows[i][SD] = "None"
       /\ Orig.rows[j][SD] = "Insomnia"

\* C6: after clean_data no 'BMI Category' is "Normal Weight": such a value
\* has become "Normal" and every other value is unchanged.
C6_BMINormalized ==
  (pc = "returned" /\ HasCol(Orig, BMI))
  => /\ HasCol(df_clean, BMI)
     /\ NRows(df_clean) = NRows(Orig)
     /\ \A i \in Rows(Orig) :
          /\ df_clean.rows[i][BMI] # "Normal Weight"
          /\ Orig.rows[i][BMI] = "Normal Weight"
               => df_clean.rows[i][BMI] = "Normal"
          /\ Orig.rows[i][BMI] # "Normal Weight"
               => df_clean.rows[i][BMI] = Orig.rows[i][BMI]

C6_Witness ==
  /\ pc = "returned"
  /\ HasCol(Orig, BMI)
  /\ \E i \in Rows(Orig), j \in Rows(Orig) :
       /\ Orig.rows[i][BMI] = "Normal Weight" /\ df_clean.rows[i][BMI] = "Normal"
       /\ Orig.rows[j][BMI] = "Overweight"

C10_PartialEffectOnRaise ==
  (pc = "raised" /\ HasCol(Orig, SD))
  => /\ HasCol(Orig, BP)
     /\ df.cols = Orig.cols
     /\ NRows(df) = NRows(Orig)
     /\ \A i \in Rows(Orig) :
          /\ df.rows[i][SD] =
               (IF Orig.rows[i][SD] = NaN THEN "None" ELSE Orig.rows[i][SD])
          /\ \A c \in ColSet(Orig) \ {SD} : df.rows[i][c] = Orig.rows[i][c]

C10_Witness ==
  /\ pc = "raised"
  /\ HasCol(Orig, SD) /\ HasCol(Orig, BP) /\ HasCol(Orig, BMI)
  /\ df # Orig
  /\ \E i \in Rows(Orig) :
       /\ Orig.rows[i][SD] = NaN
       /\ Orig.rows[i][BMI] = "Normal Weight"
       /\ ~IsSDForm(Orig.rows[i][BP])

\* ------------------------------------------------------------ claims: main
Done(step) == \E i \in 1..Len(log) : log[i] = step

Count(step) == Cardinality({i \in 1..Len(log) : log[i] = step})

LastStep == IF Len(log) = 0 THEN "" ELSE log[Len(log)]

\* C1: with no file at the input path the run ends by the early return, never
\* in a fault, and in no state of it is the cleaned CSV written or a loader,
\* cleaner or visualizer step executed.
C1_MissingFile ==
  DataPath \notin fs
  => /\ pc \in {"import", "main", "returned"}
     /\ OutputPath \notin fs
     /\ \A k \in 1..NCharts : ChartPaths[k] \notin fs
     /\ \A i \in 1..Len(log) : log[i] = "makedirs"
     /\ df = EmptyTable /\ df_clean = EmptyTable
     /\ figs = 0

C1_Witness == pc = "returned" /\ DataPath \notin fs /\ Done("makedirs")

\* The fault was raised inside clean_data / inside generate_visualizations.
FaultInCleaner == pc = "fault" /\ LastStep = "basic_inspection"

FaultInVisualizer == pc = "fault" /\ LastStep = "figure"

\* The fault is that of a chart naming a column the table lacks.
MissingColumnFault ==
  FaultInVisualizer /\ ~ColumnsPresent(Count("close") + 1, df_clean)

\* C2 as stated: a run that ends in a fault, in clean_data or in one of the
\* five charts, has not written the cleaned CSV.
C2_NoArtifactOnFault ==
  (FaultInCleaner \/ MissingColumnFault)
  => ~Done("to_csv") /\ OutputPath \notin fs

\* C2 amended: a run that ends in a fault of clean_data has not written the
\* cleaned CSV; a run that ends in a fault of one of the five charts has
\* written it before the fault.
C2_ArtifactOnlyAfterCleaner ==
  /\ FaultInCleaner => ~Done("to_csv") /\ OutputPath \notin fs
  /\ FaultInVisualizer => Done("to_csv") /\ OutputPath \in fs

C2_Witness ==
  /\ MissingColumnFault
  /\ Count("close") = 2
  /\ ~HasCol(df_clean, DUR)
  /\ OutputPath \in fs

\* The steps of a complete run, in the order of lines 8-9 and 105-117.
OneChart == <<"figure", "savefig", "close">>

FullOrder ==
  <<"makedirs", "load_data", "basic_inspection", "clean_data", "to_csv">>
    \o OneChart \o OneChart \o OneChart \o OneChart \o OneChart
    \o <<"describe">>

\* C8: the steps occur in the fixed order loader, inspector, cleaner, save,
\* charts 01..05, summary, each after the previous one completed, and both
\* output directories exist before the cleaned CSV or any plot is written.
C8_FixedOrder ==
  /\ Len(log) <= Len(FullOrder)
  /\ \A i \in 1..Len(log) : log[i] = FullOrder[i]
  /\ pc = "done" => log = FullOrder
  /\ OutputPath \in fs <=> Done("to_csv")
  /\ \A k \in 1..NCharts : ChartPaths[k] \in fs <=> Count("savefig") >= k
  /\ Done("to_csv") \/ Done("savefig") => {PlotsDir, ProcDir} \subseteq fs
  /\ pc \in {"to_csv", "draw"} => {PlotsDir, ProcDir} \subseteq fs

C8_Witness ==
  /\ pc = "done"
  /\ log = FullOrder
  /\ NRows(df_clean) = MaxRows
  /\ \A k \in 1..NCharts : ChartPaths[k] \in fs

\* C9: each chart acquires one drawing surface and releases it after saving
\* and before the next chart acquires its own: at most one surface is open in
\* any state, and none when generate_visualizations has returned.
C9_OneSurface ==
  /\ figs \in {0, 1}
  /\ figs = Count("figure") - Count("close")
  /\ pc \in {"figure", "describe", "done"} => figs = 0
  /\ pc \in {"draw", "close"} => figs = 1
  /\ pc = "close" => LastStep = "savefig"
  /\ pc \in {"describe", "done"}
       => Count("figure") = NCharts /\ Count("close") = NCharts

C9_Witness == pc = "describe" /\ figs = 0 /\ Count("close") = NCharts

====
